---- MODULE Spec2Model ----
(***************************************************************************)
(* A model of two pieces of the editor:                                    *)
(*   - ContentHoverController (src/unnamed/part_000): the controller that  *)
(*     shows, updates and hides the content hover, driving one             *)
(*     HoverOperation through cancel-and-replace;                          *)
(*   - autoIndent.ts: getPrecedingValidLine, getInheritIndentForLine,      *)
(*     getIndentActionForType and the line stripping they use.             *)
(* The two parts share no state; each has its own specifications.          *)
(***************************************************************************)
EXTENDS Integers, Sequences, FiniteSets

VARIABLES
    currentResult,   \* ContentHoverController._currentResult (Null or a HoverResult)
    widgetVisible,   \* ContentHoverWidget.position is set (the widget is shown)
    computer,        \* ContentHoverComputer: anchor, shouldFocus, source, insistOnKeepingHoverVisible
    hoverOperation,  \* the hover operations that are started and neither cancelled nor finished
    cancelled,       \* anchors of operations that were cancelled before they finished
    lastCall,        \* the last request made to the controller and what it returned
    lastDelivery,    \* the last result handed to the onResult handler since the last request
    model,           \* autoIndent: the lines of the text model (text and tokens)
    boundary,        \* autoIndent: lines 1..boundary are of the host language, the rest embedded
    call             \* autoIndent: the last function applied, its arguments and its result

vars == <<currentResult, widgetVisible, computer, hoverOperation, cancelled,
          lastCall, lastDelivery, model, boundary, call>>

hoverVars == <<currentResult, widgetVisible, computer, hoverOperation, cancelled,
               lastCall, lastDelivery>>

indentVars == <<model, boundary, call>>

Null == "null"

\* No HoverResult: the null value of _currentResult.
NullResult == [isNull |-> TRUE]

\* The null result of getInheritIndentForLine and of getIndentActionForType.
NullIndent == [isNull |-> TRUE]

(***************************************************************************)
(* Part 1: the content hover controller                                    *)
(***************************************************************************)

\* Two anchors are enough to replace one by another.
Anchors == {"A", "B"}

\* HoverAnchor.priority: "A" is a range anchor (priority 0), "B" a participant's anchor.
AnchorPriority(a) == IF a = "A" THEN 0 ELSE 1

HoverStartModes == {"Delayed", "Immediate"}

HoverStartSources == {"Mouse", "Keyboard"}

\* The hover parts the participants can compute, and the anchors each is valid for.
Parts == {"pA", "pB", "pAB"}

LoadingPart == "loading"

\* IHoverPart.isValidForHoverAnchor
IsValidForHoverAnchor(p, a) ==
    \/ p = "pAB"
    \/ p = "pA" /\ a = "A"
    \/ p = "pB" /\ a = "B"

\* What an operation started for anchor a can compute.
PartsFor(a) == {p \in Parts : IsValidForHoverAnchor(p, a)}

\* new HoverResult(anchor, messages, isComplete)
HoverResult(a, msgs, complete) == [anchor |-> a, messages |-> msgs, isComplete |-> complete]

\* HoverResult.filter(anchor): the messages that also apply to the new anchor; the
\* same object when nothing is filtered out.
HoverResultFilter(hr, a) ==
    [hr EXCEPT !.messages = {p \in hr.messages : IsValidForHoverAnchor(p, a)}]

\* The controller's state as one value, so that a handler is a composition of calls.
Ctl == [cur |-> currentResult, vis |-> widgetVisible, comp |-> computer,
        ops |-> hoverOperation, cancelled |-> cancelled]

Apply(S) ==
    /\ currentResult' = S.cur
    /\ widgetVisible' = S.vis
    /\ computer' = S.comp
    /\ hoverOperation' = S.ops
    /\ cancelled' = S.cancelled

\* HoverOperation.cancel(): the running operation is stopped.
HoverOperationCancel(S) ==
    [S EXCEPT !.ops = {}, !.cancelled = S.cancelled \cup {op.anchor : op \in S.ops}]

\* HoverOperation.start(mode): an operation for the computer's anchor starts; a
\* delayed one first waits for the hover time.
HoverOperationStart(S, mode) ==
    [S EXCEPT !.ops = S.ops \cup
        {[anchor |-> S.comp.anchor,
          phase |-> IF mode = "Delayed" THEN "FirstWait" ELSE "Computing"]}]

\* A plausible slip: the running operation is not cancelled before the replacement.
StartHoverOperationIfNecessaryNoCancel(S, anchor, mode, source, focus, insist) ==
    IF S.comp.anchor # Null /\ S.comp.anchor = anchor
    THEN S
    ELSE HoverOperationStart(
            [S EXCEPT !.comp = [anchor |-> anchor, shouldFocus |-> focus,
                                source |-> source,
                                insistOnKeepingHoverVisible |-> insist]],
            mode)

StartHoverOperationIfNecessary(S, anchor, mode, source, focus, insist) ==
    IF S.comp.anchor # Null /\ S.comp.anchor = anchor
    THEN S
    ELSE LET c == HoverOperationCancel(S)
         IN  HoverOperationStart(
                [c EXCEPT !.comp = [anchor |-> anchor, shouldFocus |-> focus,
                                    source |-> source,
                                    insistOnKeepingHoverVisible |-> insist]],
                mode)

\* _setCurrentResult(hoverResult). sameObject: hoverResult === this._currentResult.
\* hasChildNodes: the participants rendered something into the fragment, so that
\* _renderHoverParts calls this._widget.showAt.
SetCurrentResult(S, hoverResult, sameObject, hasChildNodes) ==
    IF sameObject
    THEN S
    ELSE LET hr == IF hoverResult # NullResult /\ hoverResult.messages = {}
                   THEN NullResult ELSE hoverResult
         IN  IF hr # NullResult
             THEN [S EXCEPT !.cur = hr,
                            !.vis = IF hasChildNodes THEN TRUE ELSE S.vis]
             ELSE [S EXCEPT !.cur = NullResult, !.vis = FALSE]

\* _setCurrentResult(null)
SetCurrentResultNull(S) == SetCurrentResult(S, NullResult, S.cur = NullResult, FALSE)

\* _addLoadingMessage(result): created: some participant creates a loading message.
AddLoadingMessage(S, value, created) ==
    IF S.comp.anchor # Null /\ created THEN value \cup {LoadingPart} ELSE value

\* _withResult(hoverResult)
WithResult(S, hoverResult, hasChildNodes) ==
    IF S.vis /\ S.cur # NullResult /\ S.cur.isComplete
    THEN IF ~hoverResult.isComplete
         THEN S
         ELSE IF S.comp.insistOnKeepingHoverVisible /\ hoverResult.messages = {}
              THEN S
              ELSE SetCurrentResult(S, hoverResult, FALSE, hasChildNodes)
    ELSE SetCurrentResult(S, hoverResult, FALSE, hasChildNodes)

\* A plausible slip: the handler does not check the computer's anchor.
OnResultNoGuard(S, result, created, hasChildNodes) ==
    LET messages == IF result.hasLoadingMessage
                    THEN AddLoadingMessage(S, result.value, created)
                    ELSE result.value
    IN  WithResult(S, HoverResult(S.comp.anchor, messages, result.isComplete), hasChildNodes)

\* The handler the constructor registers on this._hoverOperation.onResult.
OnResult(S, result, created, hasChildNodes) ==
    IF S.comp.anchor = Null
    THEN S
    ELSE LET messages == IF result.hasLoadingMessage
                         THEN AddLoadingMessage(S, result.value, created)
                         ELSE result.value
         IN  WithResult(S, HoverResult(S.comp.anchor, messages, result.isComplete),
                        hasChildNodes)

\* _startShowingOrUpdateHover: the state it leaves and the value it returns.
\* isGettingCloser: the hover is sticky, there is a mouse event and the mouse is
\* getting closer to the widget. canAdopt: anchor.canAdoptVisibleHover(...).
StartShowingOrUpdateHover(S, anchor, mode, source, focus, isGettingCloser, canAdopt, hasChildNodes) ==
    IF ~S.vis \/ S.cur = NullResult
    THEN IF anchor # Null
         THEN [S |-> StartHoverOperationIfNecessary(S, anchor, mode, source, focus, FALSE),
               ret |-> "true"]
         ELSE [S |-> S, ret |-> "false"]
    ELSE IF isGettingCloser
    THEN [S |-> IF anchor # Null
                THEN StartHoverOperationIfNecessary(S, anchor, mode, source, focus, TRUE)
                ELSE S,
          ret |-> "true"]
    ELSE IF anchor = Null
    THEN [S |-> SetCurrentResultNull(S), ret |-> "false"]
    ELSE IF S.cur.anchor = anchor
    THEN [S |-> S, ret |-> "true"]
    ELSE IF ~canAdopt
    THEN [S |-> StartHoverOperationIfNecessary(SetCurrentResultNull(S),
                    anchor, mode, source, focus, FALSE),
          ret |-> "true"]
    ELSE LET filtered == HoverResultFilter(S.cur, anchor)
         IN  [S |-> StartHoverOperationIfNecessary(
                        SetCurrentResult(S, filtered, filtered = S.cur, hasChildNodes),
                        anchor, mode, source, focus, FALSE),
              ret |-> "true"]

\* The anchor showsOrWillShow passes on: the candidate of the highest priority.
BestCandidate(candidates) ==
    IF candidates = {}
    THEN Null
    ELSE CHOOSE a \in candidates : \A b \in candidates : AnchorPriority(a) >= AnchorPriority(b)

NoDelivery == [kind |-> "none", opAnchor |-> Null, handlerAnchor |-> Null]

\* No function of autoIndent.ts has been applied yet.
NoIndentCall == [fn |-> "none", autoIndent |-> "Full", hasRules |-> TRUE,
                 firstCharOffset |-> 0, lineNumber |-> 0, honor |-> TRUE,
                 startColumn |-> 0, endColumn |-> 0, ch |-> "", edited |-> FALSE,
                 line |-> 0, result |-> NullIndent]

NoCall == [name |-> "none", resizing |-> FALSE, anchor |-> Null, ret |-> "void",
           replaced |-> FALSE, wasVisible |-> FALSE]

\* The controller after construction; the text model of part 2 is left alone.
InitHover ==
    /\ currentResult = NullResult
    /\ widgetVisible = FALSE
    /\ computer = [anchor |-> Null, shouldFocus |-> FALSE, source |-> "Mouse",
                   insistOnKeepingHoverVisible |-> FALSE]
    /\ hoverOperation = {}
    /\ cancelled = {}
    /\ lastCall = NoCall
    /\ lastDelivery = NoDelivery
    /\ model = <<>>
    /\ boundary = 0
    /\ call = NoIndentCall

\* The answers of the widget, the anchor and the participants are inputs only
\* where _startShowingOrUpdateHover asks for them; elsewhere they are fixed.
Consulted(anchor, isGettingCloser, canAdopt, hasChildNodes) ==
    LET visible == widgetVisible /\ currentResult # NullResult
    IN  /\ isGettingCloser => visible
        /\ canAdopt => /\ visible
                       /\ ~isGettingCloser
                       /\ anchor # Null
                       /\ currentResult.anchor # anchor
        /\ hasChildNodes => canAdopt

\* showsOrWillShow(mouseEvent)
ShowsOrWillShow ==
    \E isResizing \in BOOLEAN, candidates \in SUBSET Anchors,
       isGettingCloser \in BOOLEAN, canAdopt \in BOOLEAN, hasChildNodes \in BOOLEAN :
        /\ isResizing => widgetVisible
        /\ Consulted(BestCandidate(candidates), isGettingCloser, canAdopt, hasChildNodes)
        /\ IF isResizing
           THEN /\ UNCHANGED <<currentResult, widgetVisible, computer, hoverOperation, cancelled>>
                /\ lastCall' = [name |-> "showsOrWillShow", resizing |-> TRUE,
                                anchor |-> Null, ret |-> "true",
                                replaced |-> FALSE, wasVisible |-> widgetVisible]
           ELSE LET anchor == BestCandidate(candidates)
                    r == StartShowingOrUpdateHover(Ctl, anchor, "Delayed", "Mouse", FALSE,
                                                   isGettingCloser, canAdopt, hasChildNodes)
                IN  /\ Apply(r.S)
                    /\ lastCall' = [name |-> "showsOrWillShow", resizing |-> FALSE,
                                    anchor |-> anchor, ret |-> r.ret,
                                    replaced |-> (hoverOperation # {} /\ r.S.ops # hoverOperation),
                                    wasVisible |-> widgetVisible]
        /\ lastDelivery' = NoDelivery
        /\ UNCHANGED indentVars

\* startShowingAtRange(range, mode, source, focus): no mouse event, so the mouse is
\* never getting closer.
StartShowingAtRange ==
    \E anchor \in Anchors, mode \in HoverStartModes, source \in HoverStartSources,
       focus \in BOOLEAN, canAdopt \in BOOLEAN, hasChildNodes \in BOOLEAN :
        /\ Consulted(anchor, FALSE, canAdopt, hasChildNodes)
        /\ LET r == StartShowingOrUpdateHover(Ctl, anchor, mode, source, focus,
                                           FALSE, canAdopt, hasChildNodes)
           IN  /\ Apply(r.S)
               /\ lastCall' = [name |-> "startShowingAtRange", resizing |-> FALSE,
                               anchor |-> anchor, ret |-> r.ret,
                               replaced |-> (hoverOperation # {} /\ r.S.ops # hoverOperation),
                               wasVisible |-> widgetVisible]
        /\ lastDelivery' = NoDelivery
        /\ UNCHANGED indentVars

\* hide(), also the Escape key handler of the constructor
Hide ==
    LET a == [Ctl EXCEPT !.comp.anchor = Null]
        b == HoverOperationCancel(a)
        c == SetCurrentResultNull(b)
    IN  /\ Apply(c)
        /\ lastCall' = [name |-> "hide", resizing |-> FALSE, anchor |-> Null,
                        ret |-> "void", replaced |-> FALSE, wasVisible |-> widgetVisible]
        /\ lastDelivery' = NoDelivery
        /\ UNCHANGED indentVars

\* The TokenizationRegistry.onDidChange handler: _setCurrentResult(this._currentResult)
\* is a call with the same object, which returns early.
TokenizationChanged ==
    /\ Apply(IF widgetVisible /\ currentResult # NullResult
             THEN SetCurrentResult(Ctl, currentResult, TRUE, TRUE)
             ELSE Ctl)
    /\ UNCHANGED <<lastCall, lastDelivery>>
    /\ UNCHANGED indentVars

\* The hover time of a delayed operation passes.
HoverTimeElapsed ==
    \E op \in hoverOperation :
        /\ op.phase = "FirstWait"
        /\ hoverOperation' = (hoverOperation \ {op}) \cup {[op EXCEPT !.phase = "Computing"]}
        /\ UNCHANGED <<currentResult, widgetVisible, computer, cancelled, lastCall, lastDelivery>>
        /\ UNCHANGED indentVars

\* A running operation fires onResult with what it computed for its anchor; a
\* complete result ends the operation.
OperationResult ==
    \E op \in hoverOperation, value \in SUBSET Parts, isComplete \in BOOLEAN,
       hasLoadingMessage \in BOOLEAN, created \in BOOLEAN, hasChildNodes \in BOOLEAN :
        /\ op.phase = "Computing"
        /\ value \subseteq PartsFor(op.anchor)
        /\ hasLoadingMessage => ~isComplete
        /\ created => hasLoadingMessage
        /\ LET ended == [Ctl EXCEPT !.ops = IF isComplete THEN Ctl.ops \ {op} ELSE Ctl.ops]
               res == [value |-> value, isComplete |-> isComplete,
                       hasLoadingMessage |-> hasLoadingMessage]
           IN  Apply(OnResult(ended, res, created, hasChildNodes))
        /\ lastDelivery' = [kind |-> "result", opAnchor |-> op.anchor,
                            handlerAnchor |-> computer.anchor]
        /\ UNCHANGED lastCall
        /\ UNCHANGED indentVars

\* The emitter fires a result of an operation that was cancelled before it finished.
LateResult ==
    \E a \in cancelled, value \in SUBSET Parts, isComplete \in BOOLEAN,
       hasChildNodes \in BOOLEAN :
        /\ value \subseteq PartsFor(a)
        /\ LET spent == [Ctl EXCEPT !.cancelled = Ctl.cancelled \ {a}]
               res == [value |-> value, isComplete |-> isComplete,
                       hasLoadingMessage |-> FALSE]
           IN  Apply(OnResult(spent, res, FALSE, hasChildNodes))
        /\ lastDelivery' = [kind |-> "late", opAnchor |-> a,
                            handlerAnchor |-> computer.anchor]
        /\ UNCHANGED lastCall
        /\ UNCHANGED indentVars

NextHover ==
    \/ ShowsOrWillShow
    \/ StartShowingAtRange
    \/ Hide
    \/ TokenizationChanged
    \/ HoverTimeElapsed
    \/ OperationResult

\* The controller with a HoverOperation whose cancel() takes effect at once.
Spec == InitHover /\ [][NextHover]_vars

NextLate ==
    \/ NextHover
    \/ LateResult

\* The controller with an emitter that may still fire for a cancelled operation:
\* the case the onResult handler calls an invalid state.
SpecLate == InitHover /\ [][NextLate]_vars

(***************************************************************************)
(* Part 2: autoIndent.ts                                                   *)
(***************************************************************************)

\* The number of lines of the text model.
MaxLines == 3

\* A token of a line: [startOffset, endOffset) of a standard token type.
Tok(s, e, t) == [startOffset |-> s, endOffset |-> e, type |-> t]

\* A line: its content, one character per element, and its tokens.
Line(text, tokens) == [text |-> text, tokens |-> tokens]

\* The lines a model is made of: empty, whitespace only, an indented opening
\* bracket, a closing bracket, an indented plain line, a line that indents only the
\* next line, a line of the unindented pattern, a bracket in a comment, a line that
\* is one string, and a bracket in a string after code.
LineSet ==
    { Line(<<>>, <<Tok(0, 0, "Other")>>),
      Line(<<" ">>, <<Tok(0, 1, "Other")>>),
      Line(<<" ", "{">>, <<Tok(0, 2, "Other")>>),
      Line(<<"}">>, <<Tok(0, 1, "Other")>>),
      Line(<<" ", "a">>, <<Tok(0, 2, "Other")>>),
      Line(<<"i">>, <<Tok(0, 1, "Other")>>),
      Line(<<"#">>, <<Tok(0, 1, "Other")>>),
      Line(<<"{">>, <<Tok(0, 1, "Comment")>>),
      Line(<<"a", "{">>, <<Tok(0, 1, "Other"), Tok(1, 2, "String")>>) }

\* The characters that can be typed.
TypedChars == {"}", "a"}

\* model.tokenization.getLanguageIdAtPosition(lineNumber, 0)
GetLanguageIdAtPosition(lineNumber) == IF lineNumber <= boundary THEN "html" ELSE "js"

\* model.getLineContent(lineNumber)
GetLineContent(m, lineNumber) == m[lineNumber].text

\* model.tokenization.getLineTokens(lineNumber)
GetLineTokens(m, lineNumber) == m[lineNumber].tokens

IsSpace(c) == c = " "

\* The first character of text that is no whitespace, or Null.
FirstNonSpace(text) ==
    IF \A i \in 1..Len(text) : IsSpace(text[i])
    THEN Null
    ELSE text[CHOOSE i \in 1..Len(text) :
                /\ ~IsSpace(text[i])
                /\ \A j \in 1..(i - 1) : IsSpace(text[j])]

\* strings.getLeadingWhitespace(str)
GetLeadingWhitespace(text) ==
    IF \A i \in 1..Len(text) : IsSpace(text[i])
    THEN text
    ELSE SubSeq(text, 1, (CHOOSE i \in 1..Len(text) :
                            /\ ~IsSpace(text[i])
                            /\ \A j \in 1..(i - 1) : IsSpace(text[j])) - 1)

\* The indentation rules of the language configuration:
\* increaseIndentPattern /^.*\{[^}]*$/
ShouldIncrease(text) ==
    \E i \in 1..Len(text) :
        /\ text[i] = "{"
        /\ \A j \in (i + 1)..Len(text) : text[j] # "}"

\* decreaseIndentPattern /^\s*\}/
ShouldDecrease(text) == FirstNonSpace(text) = "}"

\* indentNextLinePattern /^\s*i/
ShouldIndentNextLine(text) == FirstNonSpace(text) = "i"

\* unIndentedLinePattern /^\s*#/
ShouldIgnore(text) == FirstNonSpace(text) = "#"

\* IndentRulesSupport.getIndentMetadata(text): the masks that are set
GetIndentMetadata(text) ==
    (IF ShouldIncrease(text) THEN {"INCREASE_MASK"} ELSE {})
    \cup (IF ShouldDecrease(text) THEN {"DECREASE_MASK"} ELSE {})
    \cup (IF ShouldIndentNextLine(text) THEN {"INDENT_NEXTLINE_MASK"} ELSE {})
    \cup (IF ShouldIgnore(text) THEN {"UNINDENT_MASK"} ELSE {})

\* The brackets of the language configuration.
BracketsOpen == <<"{">>

BracketsClose == <<"}">>

\* IIndentConverter.unshiftIndent with an indent unit of one space
UnshiftIndent(indentation) ==
    IF Len(indentation) = 0 THEN indentation
    ELSE SubSeq(indentation, 1, Len(indentation) - 1)

Min(a, b) == IF a < b THEN a ELSE b

Max(a, b) == IF a > b THEN a ELSE b

\* String.prototype.substring(start, end): the indices are clamped to the string.
Substring(text, start, end) ==
    LET a == Min(Max(start, 0), Len(text))
        b == Min(Max(end, 0), Len(text))
    IN  SubSeq(text, Min(a, b) + 1, Max(a, b))

\* String.prototype.substr(start), for start >= 0: the rest of the string.
SubstrFrom(text, start) == Substring(text, start, Len(text))

\* String.prototype.replace(bracket, '_'): the first occurrence only.
ReplaceFirst(text, bracket) ==
    IF \E i \in 1..Len(text) : text[i] = bracket
    THEN LET k == CHOOSE i \in 1..Len(text) :
                    /\ text[i] = bracket
                    /\ \A j \in 1..(i - 1) : text[j] # bracket
         IN  [text EXCEPT ![k] = "_"]
    ELSE text

RECURSIVE ReplaceEach(_, _, _)
\* brackets.forEach(bracket => modifiedString = modifiedString.replace(bracket, '_'))
ReplaceEach(text, brackets, i) ==
    IF i > Len(brackets) THEN text
    ELSE ReplaceEach(ReplaceFirst(text, brackets[i]), brackets, i + 1)

RECURSIVE StripTokens(_, _, _, _, _)
\* The loop of getStrippedLineForLineAndTokens from token i on.
StripTokens(line, tokens, i, res, offset) ==
    IF i > Len(tokens) THEN res
    ELSE LET type == tokens[i].type
             startOffset == tokens[i].startOffset
             endOffset == tokens[i].endOffset
         IN  IF type = "Comment"
             THEN StripTokens(line, tokens, i + 1,
                    Substring(res, 0, offset + startOffset) \o SubstrFrom(res, offset + endOffset),
                    offset + startOffset - endOffset)
             ELSE IF type = "String" \/ type = "RegEx"
             THEN LET substringOfToken == Substring(line, startOffset, endOffset)
                      modifiedString ==
                          ReplaceEach(ReplaceEach(substringOfToken, BracketsOpen, 1),
                                      BracketsClose, 1)
                      offset2 == offset + Len(substringOfToken) - Len(modifiedString)
                  IN  StripTokens(line, tokens, i + 1,
                        Substring(res, 0, offset2 + startOffset) \o modifiedString
                            \o SubstrFrom(res, offset2 + endOffset),
                        offset2)
             ELSE StripTokens(line, tokens, i + 1, res, offset)

\* getStrippedLineForLineAndTokens(languageConfigurationService, languageId, line, tokens)
GetStrippedLineForLineAndTokens(line, tokens) == StripTokens(line, tokens, 1, line, 0)

\* getStrippedLine(languageConfigurationService, model, lineNumber)
GetStrippedLine(m, lineNumber) ==
    GetStrippedLineForLineAndTokens(GetLineContent(m, lineNumber), GetLineTokens(m, lineNumber))

\* entirelyInComment, entirelyInString, entirelyInRegex of getPrecedingValidLine
EntirelyIn(tokens, type) == \A i \in 1..Len(tokens) : tokens[i].type = type

\* A plausible slip: lines of whitespace only are not skipped.
IsSkippedButBlank(m, lastLineNumber) ==
    LET text == GetLineContent(m, lastLineNumber)
        tokens == GetLineTokens(m, lastLineNumber)
    IN  \/ ShouldIgnore(text)
        \/ text = <<>>
        \/ EntirelyIn(tokens, "Comment")
        \/ EntirelyIn(tokens, "String")
        \/ EntirelyIn(tokens, "RegEx")

\* The condition under which getPrecedingValidLine skips a line.
IsSkipped(m, lastLineNumber) ==
    LET text == GetLineContent(m, lastLineNumber)
        tokens == GetLineTokens(m, lastLineNumber)
    IN  \/ ShouldIgnore(text)
        \/ (Len(text) > 0 /\ \A i \in 1..Len(text) : IsSpace(text[i]))
        \/ text = <<>>
        \/ EntirelyIn(tokens, "Comment")
        \/ EntirelyIn(tokens, "String")
        \/ EntirelyIn(tokens, "RegEx")

RECURSIVE PrecedingValidLineLoop(_, _, _, _)
\* The for loop of getPrecedingValidLine at lastLineNumber.
PrecedingValidLineLoop(m, languageId, lastLineNumber, resultLineNumber) ==
    IF lastLineNumber < 1 THEN -1
    ELSE IF GetLanguageIdAtPosition(lastLineNumber) # languageId THEN resultLineNumber
    ELSE IF IsSkipped(m, lastLineNumber)
         THEN PrecedingValidLineLoop(m, languageId, lastLineNumber - 1, lastLineNumber)
         ELSE lastLineNumber

\* A plausible slip: the scan starts at lineNumber instead of the line above it.
GetPrecedingValidLineFromCurrent(m, lineNumber) ==
    LET languageId == GetLanguageIdAtPosition(lineNumber)
    IN  IF lineNumber > 1
        THEN PrecedingValidLineLoop(m, languageId, lineNumber, -1)
        ELSE -1

\* getPrecedingValidLine(model, lineNumber, indentRulesSupport)
GetPrecedingValidLine(m, lineNumber) ==
    LET languageId == GetLanguageIdAtPosition(lineNumber)
    IN  IF lineNumber > 1
        THEN PrecedingValidLineLoop(m, languageId, lineNumber - 1, -1)
        ELSE -1

\* A result of getInheritIndentForLine; line 0 stands for no line property.
Inherit(indentation, action, line) ==
    [indentation |-> indentation, action |-> action, line |-> line]

RECURSIVE StopLineLoop(_, _)
\* for (let i = previousLine - 1; i > 0; i--): the stopLine it ends with.
StopLineLoop(m, i) ==
    IF i <= 0 THEN 0
    ELSE IF ShouldIndentNextLine(GetStrippedLine(m, i))
         THEN StopLineLoop(m, i - 1)
         ELSE i

RECURSIVE InnerStopLineLoop(_, _, _)
\* for (let j = i - 1; j > 0; j--), which reads the stripped line i on every round.
InnerStopLineLoop(m, i, j) ==
    IF j <= 0 THEN 0
    ELSE IF ShouldIndentNextLine(GetStrippedLine(m, i))
         THEN InnerStopLineLoop(m, i, j - 1)
         ELSE j

RECURSIVE NotTemporaryLoop(_, _)
\* for (let i = precedingUnIgnoredLine; i > 0; i--) of the branch that does not
\* honor intentional indentation.
NotTemporaryLoop(m, i) ==
    IF i <= 0
    THEN Inherit(GetLeadingWhitespace(GetLineContent(m, 1)), Null, 1)
    ELSE LET lineContent == GetStrippedLine(m, i)
         IN  IF ShouldIncrease(lineContent)
             THEN Inherit(GetLeadingWhitespace(lineContent), "Indent", i)
             ELSE IF ShouldIndentNextLine(lineContent)
             THEN LET stopLine == InnerStopLineLoop(m, i, i - 1)
                  IN  Inherit(GetLeadingWhitespace(GetStrippedLine(m, stopLine + 1)),
                              Null, stopLine + 1)
             ELSE IF ShouldDecrease(lineContent)
             THEN Inherit(GetLeadingWhitespace(lineContent), Null, i)
             ELSE NotTemporaryLoop(m, i - 1)

\* getInheritIndentForLine(autoIndent, model, lineNumber, honorIntentialIndent, ...)
GetInheritIndentForLine(autoIndent, hasRules, m, lineNumber, honorIntentialIndent) ==
    IF autoIndent # "Full" THEN NullIndent
    ELSE IF ~hasRules THEN NullIndent
    ELSE IF lineNumber <= 1 THEN Inherit(<<>>, Null, 0)
    ELSE IF \A priorLineNumber \in 1..(lineNumber - 1) : GetLineContent(m, priorLineNumber) = <<>>
    THEN Inherit(<<>>, Null, 0)
    ELSE LET precedingUnIgnoredLine == GetPrecedingValidLine(m, lineNumber)
         IN  IF precedingUnIgnoredLine < 0 THEN NullIndent
             ELSE IF precedingUnIgnoredLine < 1 THEN Inherit(<<>>, Null, 0)
             ELSE LET content == GetStrippedLine(m, precedingUnIgnoredLine)
                  IN  IF ShouldIncrease(content) \/ ShouldIndentNextLine(content)
                      THEN Inherit(GetLeadingWhitespace(content), "Indent", precedingUnIgnoredLine)
                      ELSE IF ShouldDecrease(content)
                      THEN Inherit(GetLeadingWhitespace(content), Null, precedingUnIgnoredLine)
                      ELSE IF precedingUnIgnoredLine = 1
                      THEN Inherit(GetLeadingWhitespace(GetLineContent(m, precedingUnIgnoredLine)),
                                   Null, precedingUnIgnoredLine)
                      ELSE LET previousLine == precedingUnIgnoredLine - 1
                               metadata == GetIndentMetadata(GetLineContent(m, previousLine))
                           IN  IF /\ metadata \cap {"INCREASE_MASK", "DECREASE_MASK"} = {}
                                  /\ "INDENT_NEXTLINE_MASK" \in metadata
                               THEN LET stopLine == StopLineLoop(m, previousLine - 1)
                                    IN  Inherit(GetLeadingWhitespace(GetLineContent(m, stopLine + 1)),
                                                Null, stopLine + 1)
                               ELSE IF honorIntentialIndent
                               THEN Inherit(GetLeadingWhitespace(
                                                GetLineContent(m, precedingUnIgnoredLine)),
                                            Null, precedingUnIgnoredLine)
                               ELSE NotTemporaryLoop(m, precedingUnIgnoredLine)

\* The text of the line without the selection, as getIndentActionForType builds it.
FullText(m, lineNumber, startColumn, endColumn) ==
    LET scopedLineText == GetLineContent(m, lineNumber)
        beforeTypeText == Substring(scopedLineText, 0, startColumn - 1)
        afterTypeText == IF startColumn = endColumn
                         THEN SubstrFrom(scopedLineText, startColumn - 1)
                         ELSE SubstrFrom(scopedLineText, endColumn - 1)
    IN  beforeTypeText \o afterTypeText

\* The text of the line with the typed character in the place of the selection.
FullTextWithCharacter(m, lineNumber, startColumn, endColumn, ch) ==
    LET scopedLineText == GetLineContent(m, lineNumber)
        beforeTypeText == Substring(scopedLineText, 0, startColumn - 1)
        afterTypeText == IF startColumn = endColumn
                         THEN SubstrFrom(scopedLineText, startColumn - 1)
                         ELSE SubstrFrom(scopedLineText, endColumn - 1)
    IN  beforeTypeText \o <<ch>> \o afterTypeText

\* A plausible slip: the content before typing is not looked at.
GetIndentActionForTypeNoBefore(autoIndent, hasRules, firstCharOffset, m, lineNumber, startColumn, endColumn, ch) ==
    IF autoIndent # "Full" THEN NullIndent
    ELSE IF firstCharOffset # 0 THEN NullIndent
    ELSE IF ~hasRules THEN NullIndent
    ELSE IF ShouldDecrease(FullTextWithCharacter(m, lineNumber, startColumn, endColumn, ch))
    THEN LET r == GetInheritIndentForLine(autoIndent, hasRules, m, lineNumber, FALSE)
         IN  IF r = NullIndent THEN NullIndent
             ELSE [indentation |-> IF r.action # "Indent"
                                   THEN UnshiftIndent(r.indentation)
                                   ELSE r.indentation]
    ELSE NullIndent

\* getIndentActionForType(autoIndent, model, range, ch, indentConverter, ...), for a
\* range within one line; firstCharOffset is that of the scoped line tokens.
GetIndentActionForType(autoIndent, hasRules, firstCharOffset, m, lineNumber, startColumn, endColumn, ch) ==
    IF autoIndent # "Full" THEN NullIndent
    ELSE IF firstCharOffset # 0 THEN NullIndent
    ELSE IF ~hasRules THEN NullIndent
    ELSE IF /\ ~ShouldDecrease(FullText(m, lineNumber, startColumn, endColumn))
            /\ ShouldDecrease(FullTextWithCharacter(m, lineNumber, startColumn, endColumn, ch))
    THEN LET r == GetInheritIndentForLine(autoIndent, hasRules, m, lineNumber, FALSE)
         IN  IF r = NullIndent THEN NullIndent
             ELSE [indentation |-> IF r.action # "Indent"
                                   THEN UnshiftIndent(r.indentation)
                                   ELSE r.indentation]
    ELSE NullIndent

\* A text model of MaxLines lines; the embedded language starts after the boundary.
InitIndent ==
    /\ model \in [1..MaxLines -> LineSet]
    /\ boundary \in 0..(MaxLines - 1)
    /\ call = NoIndentCall
    /\ currentResult = NullResult
    /\ widgetVisible = FALSE
    /\ computer = [anchor |-> Null, shouldFocus |-> FALSE, source |-> "Mouse",
                   insistOnKeepingHoverVisible |-> FALSE]
    /\ hoverOperation = {}
    /\ cancelled = {}
    /\ lastCall = NoCall
    /\ lastDelivery = NoDelivery

\* A text model of one to MaxLines lines, for typing on its last line.
InitType ==
    /\ model \in UNION {[1..n -> LineSet] : n \in 1..MaxLines}
    /\ boundary \in 0..(MaxLines - 1)
    /\ boundary < Len(model)
    /\ call = NoIndentCall
    /\ currentResult = NullResult
    /\ widgetVisible = FALSE
    /\ computer = [anchor |-> Null, shouldFocus |-> FALSE, source |-> "Mouse",
                   insistOnKeepingHoverVisible |-> FALSE]
    /\ hoverOperation = {}
    /\ cancelled = {}
    /\ lastCall = NoCall
    /\ lastDelivery = NoDelivery

\* The configurations of a call: arguments the function does not read are fixed.
Configured(autoIndent, hasRules, lineNumber, honor) ==
    /\ autoIndent # "Full" => hasRules
    /\ (autoIndent # "Full" \/ ~hasRules) => (lineNumber = 1 /\ honor)

\* getPrecedingValidLine is applied.
CallGetPrecedingValidLine ==
    \E lineNumber \in 1..MaxLines :
        /\ call.fn = "none"
        /\ call' = [NoIndentCall EXCEPT !.fn = "getPrecedingValidLine",
                                        !.lineNumber = lineNumber,
                                        !.line = GetPrecedingValidLine(model, lineNumber)]
        /\ UNCHANGED <<model, boundary>>
        /\ UNCHANGED hoverVars

\* getInheritIndentForLine is applied.
CallGetInheritIndentForLine ==
    \E autoIndent \in {"Advanced", "Full"}, hasRules \in BOOLEAN,
       lineNumber \in 1..MaxLines, honor \in BOOLEAN :
        /\ call.fn = "none"
        /\ Configured(autoIndent, hasRules, lineNumber, honor)
        /\ call' = [NoIndentCall EXCEPT
                        !.fn = "getInheritIndentForLine",
                        !.autoIndent = autoIndent, !.hasRules = hasRules,
                        !.lineNumber = lineNumber, !.honor = honor,
                        !.result = GetInheritIndentForLine(autoIndent, hasRules, model,
                                                           lineNumber, honor)]
        /\ UNCHANGED <<model, boundary>>
        /\ UNCHANGED hoverVars

\* The content of a line at or below the line of the last call changes.
EditAtOrBelow ==
    \E k \in 1..MaxLines, line \in LineSet :
        /\ call.fn = "getInheritIndentForLine"
        /\ ~call.edited
        /\ k >= call.lineNumber
        /\ model[k] # line
        /\ model' = [model EXCEPT ![k] = line]
        /\ call' = [call EXCEPT !.edited = TRUE]
        /\ UNCHANGED boundary
        /\ UNCHANGED hoverVars

\* getIndentActionForType is applied to a range within the last line.
CallGetIndentActionForType ==
    \E autoIndent \in {"Advanced", "Full"}, hasRules \in BOOLEAN, firstCharOffset \in {0, 1},
       lineNumber \in {Len(model)}, startColumn \in 1..3, endColumn \in 1..3, ch \in TypedChars :
        /\ call.fn = "none"
        /\ autoIndent # "Full" => hasRules
        /\ (autoIndent # "Full" \/ ~hasRules \/ firstCharOffset # 0)
              => (startColumn = 1 /\ endColumn = 1 /\ ch = "}")
        /\ firstCharOffset # 0 => (autoIndent = "Full" /\ hasRules)
        /\ startColumn <= endColumn
        /\ endColumn <= Len(GetLineContent(model, lineNumber)) + 1
        /\ call' = [NoIndentCall EXCEPT
                        !.fn = "getIndentActionForType",
                        !.autoIndent = autoIndent, !.hasRules = hasRules,
                        !.firstCharOffset = firstCharOffset,
                        !.lineNumber = lineNumber, !.startColumn = startColumn,
                        !.endColumn = endColumn, !.ch = ch,
                        !.result = GetIndentActionForType(autoIndent, hasRules, firstCharOffset,
                                        model, lineNumber, startColumn, endColumn, ch)]
        /\ UNCHANGED <<model, boundary>>
        /\ UNCHANGED hoverVars

NextIndent ==
    \/ CallGetPrecedingValidLine
    \/ CallGetInheritIndentForLine

\* getPrecedingValidLine and getInheritIndentForLine applied to every model.
SpecIndent == InitIndent /\ [][NextIndent]_vars

NextEdit ==
    \/ CallGetInheritIndentForLine
    \/ EditAtOrBelow

\* getInheritIndentForLine applied to a model whose lines at and below lineNumber
\* change afterwards.
SpecEdit == InitIndent /\ [][NextEdit]_vars

\* getIndentActionForType applied to the last line of every model.
SpecType == InitType /\ [][CallGetIndentActionForType]_vars

(***************************************************************************)
(* Claims about the hover controller                                       *)
(***************************************************************************)

C2_FalseStaysHidden ==
    lastCall.ret = "false" => ~widgetVisible

\* C3: when _startShowingOrUpdateHover returned true then, on return and until a
\* result is delivered, the hover is visible with a current result or an operation
\* for the requested anchor is active.
C3_TrueShowsOrWillShow ==
    (lastCall.ret = "true" /\ ~lastCall.resizing /\ lastDelivery.kind = "none")
        => \/ widgetVisible /\ currentResult # NullResult
           \/ \E op \in hoverOperation : op.anchor = lastCall.anchor

\* C4: from the return of hide() until the next request, the computer's anchor is
\* null, no operation is active, the current result is null and the widget is
\* hidden, whatever results are delivered in between.
C4_HideIsFinal ==
    lastCall.name = "hide"
        => /\ computer.anchor = Null
           /\ hoverOperation = {}
           /\ currentResult = NullResult
           /\ ~widgetVisible

\* C4 witness: hide() hid a visible hover and a result of the cancelled operation
\* was delivered afterwards.
C4_Witness ==
    /\ lastCall.name = "hide"
    /\ lastCall.wasVisible
    /\ lastDelivery.kind = "late"
    /\ lastDelivery.handlerAnchor = Null

(***************************************************************************)
(* Claims about autoIndent.ts                                              *)
(***************************************************************************)

\* A line getPrecedingValidLine is documented to pass over: it matches
\* unIndentedLinePattern, is empty or whitespace only, or lies entirely in a
\* comment, a string or a regex.
InvalidLine(k) ==
    LET text == model[k].text
        tokens == model[k].tokens
    IN  \/ FirstNonSpace(text) = "#"
        \/ \A i \in 1..Len(text) : text[i] = " "
        \/ \E t \in {"Comment", "String", "RegEx"} :
              \A i \in 1..Len(tokens) : tokens[i].type = t

SameLanguage(k, n) == (k <= boundary) = (n <= boundary)

\* k is the nearest preceding valid line of n: a valid line of n's language with
\* only invalid lines of that language between it and n.
IsNearestValid(k, n) ==
    /\ k \in 1..(n - 1)
    /\ SameLanguage(k, n)
    /\ ~InvalidLine(k)
    /\ \A j \in (k + 1)..(n - 1) : SameLanguage(j, n) /\ InvalidLine(j)

\* The scan upward from n - 1 reaches line k of another language before any valid line.
RunsIntoBoundary(k, n) ==
    /\ k \in 1..(n - 1)
    /\ ~SameLanguage(k, n)
    /\ \A j \in (k + 1)..(n - 1) : SameLanguage(j, n) /\ InvalidLine(j)

InheritCalled ==
    /\ call.fn = "getInheritIndentForLine"
    /\ call.autoIndent = "Full"
    /\ call.hasRules

\* C5: the result of getInheritIndentForLine for lineNumber is the same for every
\* model that differs from the one it was computed on only at lineNumber and below.
C5_OnlyLinesAbove ==
    call.fn = "getInheritIndentForLine"
        => call.result = GetInheritIndentForLine(call.autoIndent, call.hasRules, model,
                                                 call.lineNumber, call.honor)

\* C5 witness: a line at or below lineNumber changed after a call that inherited the
\* indentation of a line above.
C5_Witness ==
    /\ InheritCalled
    /\ call.edited
    /\ call.result # NullIndent
    /\ call.result.line >= 1

C7_IntentionalIndentation ==
    (call.fn = "getIndentActionForType" /\ call.result # NullIndent) =>
        LET before == FullText(model, call.lineNumber, call.startColumn, call.endColumn)
            after == FullTextWithCharacter(model, call.lineNumber, call.startColumn,
                                           call.endColumn, call.ch)
            r == GetInheritIndentForLine(call.autoIndent, call.hasRules, model,
                                         call.lineNumber, FALSE)
        IN  /\ ~ShouldDecrease(before)
            /\ ShouldDecrease(after)
            /\ r # NullIndent
            /\ call.result.indentation =
                  IF r.action = "Indent" THEN r.indentation
                  ELSE UnshiftIndent(r.indentation)

\* C7 witness: typing the closing bracket on a whitespace line under an indented
\* plain line unshifts the inherited indentation.
C7_Witness ==
    /\ call.fn = "getIndentActionForType"
    /\ call.ch = "}"
    /\ call.result # NullIndent
    /\ call.result.indentation = <<>>
    /\ GetInheritIndentForLine(call.autoIndent, call.hasRules, model,
                               call.lineNumber, FALSE) = Inherit(<<" ">>, Null, call.lineNumber - 1)

\* C8: when every line above lineNumber is empty or whitespace only, the result of
\* getInheritIndentForLine is {indentation: '', action: null}.
C8_FirstNonBlankLine ==
    (/\ InheritCalled
     /\ \A k \in 1..(call.lineNumber - 1) : \A i \in 1..Len(model[k].text) : model[k].text[i] = " ")
        => call.result = Inherit(<<>>, Null, 0)

\* C9: getPrecedingValidLine returns -1 whenever its scan runs into the boundary of
\* embedded languages, also when it skipped ignored lines on the way.
C9_BoundaryGivesMinusOne ==
    call.fn = "getPrecedingValidLine" =>
        \A k \in 1..MaxLines :
            RunsIntoBoundary(k, call.lineNumber) => call.line = -1

\* C10: getPrecedingValidLine returns 0 when lineNumber > 1 and every line above is
\* invalid, and any other non-negative result is the nearest preceding valid line.
C10_ZeroOrNearestValid ==
    call.fn = "getPrecedingValidLine" =>
        /\ (/\ call.lineNumber > 1
            /\ \A k \in 1..(call.lineNumber - 1) :
                  SameLanguage(k, call.lineNumber) /\ InvalidLine(k))
              => call.line = 0
        /\ call.line >= 1 => IsNearestValid(call.line, call.lineNumber)

====
